---- MODULE Spec2Model ----
(***************************************************************************)
(* Verification model of the light-hooks library.                          *)
(*                                                                         *)
(* Part 1: usePolling (the Polling Engine).  The hook is a React hook: its *)
(* state lives in useState cells, its timers and the abort controller in   *)
(* useRef cells, and every callback it hands to a timer or to a promise    *)
(* continuation is a closure over the values of the render that created    *)
(* it.  The model keeps those captured values in the timer and in-flight   *)
(* records, because the code reads them (not the current cells) when the   *)
(* callback runs.  Timer handles and abort controllers are opaque to the   *)
(* code, so a ref cell is modelled by whether it is set, and the object it *)
(* refers to by a mark on that object (held, ctrl).                        *)
(***************************************************************************)
EXTENDS Integers, FiniteSets, Sequences, Bags, TLC

\* ---------------------------------------------------------------- bounds
MaxRetriesBound == 1      \* maxRetries is drawn from 0..MaxRetriesBound and the default
MaxCalls == 3             \* fn is invoked at most MaxCalls times in a run
MaxValue == 1             \* fn resolves with a value in 1..MaxValue
MaxError == 1             \* fn rejects with an error in 1..MaxError
MaxBindings == 2          \* an array of eventOptions holds at most MaxBindings configs
MaxSockets == 4           \* new WebSocket() is called at most MaxSockets times in a run
MaxReconnectAttempts == 1 \* reconnectAttempts is drawn from 0..MaxReconnectAttempts

Null == 0                 \* null (state cells, refs)
Handle == 1               \* a ref cell that holds a handle or a controller
Undefined == 0 - 1        \* the value of a Promise<void>

DefaultMaxRetries == 3    \* maxRetries = 3 when the caller gives none

Values == 1..MaxValue
RetryBudgets == (0..MaxRetriesBound) \cup {DefaultMaxRetries}
Errors == 1..MaxError

\* ----------------------------------------------------------------- state
VARIABLES
  type,               \* option: "interval" | "long"
  maxRetries,         \* option
  autoStart,          \* option
  data,               \* useState
  isLoading,          \* useState
  isRunning,          \* useState
  error,              \* useState
  retryCount,         \* useState
  intervalRef,        \* useRef: Null, or the handle of a setInterval
  timeoutRef,         \* useRef: Null, or the handle of the last setTimeout
  abortControllerRef, \* useRef: Null, or the controller made last
  isActiveRef,        \* useRef: mounted
  timers,             \* bag of the host's pending timers, with their closures
  inflight,           \* bag of the invocations of fn that have not settled
  fnCalls,            \* number of invocations of fn so far
  last,               \* the last operation: what ran, what it saw, what it called
  sinceStop,          \* stop() took effect and neither start() nor poll() was called since
  quiet,              \* so far only the initial start, failures of fn and retry timers
  ev,                 \* the useEvent instance and its document (part 2)
  ws,                 \* the useWebSocket instance and its sockets (part 3)
  cd,                 \* the useCountdown instance and its clock (part 4)
  ft                  \* the useFetch instance and its requests (part 5)

optVars == <<type, maxRetries, autoStart>>
pollingVars == <<type, maxRetries, autoStart, data, isLoading, isRunning, error,
                 retryCount, intervalRef, timeoutRef, abortControllerRef,
                 isActiveRef, timers, inflight, fnCalls, last, sinceStop, quiet>>
vars == <<pollingVars, ev, ws, cd, ft>>

NoCb == [kind |-> "none", arg |-> Null, count |-> 0]
NoRet == [kind |-> "none", value |-> Null]
NoRec == [cRetry |-> 0, cRunning |-> FALSE, loop |-> FALSE, manual |-> FALSE,
          retry |-> FALSE, aborted |-> FALSE, ctrl |-> FALSE]

\* No useEvent instance is mounted.
EventAbsent == [pc |-> "absent"]

\* No useWebSocket instance is mounted.
SocketAbsent == [pc |-> "absent"]

\* No useCountdown instance is mounted.
CountdownAbsent == [pc |-> "absent"]

\* No useFetch instance is mounted.
FetchAbsent == [pc |-> "absent"]

\* ------------------------------------------------------------------- bags
RECURSIVE Copies(_, _)
Copies(S, B) ==
  IF S = {} THEN 0
  ELSE LET e == CHOOSE x \in S : TRUE IN CopiesIn(e, B) + Copies(S \ {e}, B)

\* The bag of f[e] for the members e of B.
MapBag(f, B) ==
  LET S == BagToSet(B)
  IN [x \in {f[e] : e \in S} |-> Copies({e \in S : f[e] = x}, B)]

\* The bag of the members of B that are in the set keep.
FilterBag(keep, B) == [x \in keep \cap BagToSet(B) |-> CopiesIn(x, B)]

One(e) == SetToBag({e})

\* The hook's cells gathered in one record, so that the handlers below compose.
Cur ==
  [data |-> data, isLoading |-> isLoading, isRunning |-> isRunning,
   error |-> error, retryCount |-> retryCount,
   intervalRef |-> intervalRef, timeoutRef |-> timeoutRef,
   abortControllerRef |-> abortControllerRef, isActiveRef |-> isActiveRef,
   timers |-> timers, inflight |-> inflight, fnCalls |-> fnCalls,
   cb |-> NoCb, ret |-> NoRet]

\* The values a render's closures capture.
Closure(s) == [retryCount |-> s.retryCount, isRunning |-> s.isRunning]

\* ----------------------------------------------------------- host timers
IsTimeout(t) == t.kind # "interval"
Unhold(t) == IF IsTimeout(t) THEN [t EXCEPT !.held = FALSE] ELSE t
NotHeldTimeout(t) == ~(IsTimeout(t) /\ t.held)
NotHeldInterval(t) == ~(t.kind = "interval" /\ t.held)

\* clearTimeout(timeoutRef.current)
clearTimeoutRef(s) ==
  [s EXCEPT !.timers = FilterBag({t \in BagToSet(@) : NotHeldTimeout(t)}, @)]

\* clearInterval(intervalRef.current)
clearIntervalRef(s) ==
  [s EXCEPT !.timers = FilterBag({t \in BagToSet(@) : NotHeldInterval(t)}, @)]

\* timeoutRef.current = setTimeout(callback, delay): the cell lets go of the
\* handle it held, whose timer stays pending.
setTimeoutRef(s, kind, c, manual) ==
  [s EXCEPT !.timeoutRef = Handle,
            !.timers = MapBag([t \in BagToSet(@) |-> Unhold(t)], @)
                       (+) One([kind |-> kind, cRetry |-> c.retryCount,
                                cRunning |-> c.isRunning, manual |-> manual,
                                held |-> TRUE])]

\* intervalRef.current = setInterval(callback, interval)
setIntervalRef(s, c) ==
  [s EXCEPT !.intervalRef = Handle,
            !.timers = @ (+) One([kind |-> "interval", cRetry |-> c.retryCount,
                                  cRunning |-> c.isRunning, manual |-> FALSE,
                                  held |-> TRUE])]

\* ------------------------------------------------------------ the handlers
Abort(r) == IF r.ctrl THEN [r EXCEPT !.aborted = TRUE] ELSE r
Unctrl(r) == [r EXCEPT !.ctrl = FALSE]

\* abortControllerRef.current.abort(): fn is called without the signal, so
\* the abort only marks the controller of the invocation it was made for.
abort(s) == [s EXCEPT !.inflight = MapBag([r \in BagToSet(@) |-> Abort(r)], @)]

\* A variant of executePoll without the test of isActiveRef.
executePollUnguarded(s, c, isRetry, loop, manual) ==
  [s EXCEPT !.isLoading = TRUE,
            !.error = IF isRetry THEN @ ELSE Null,
            !.abortControllerRef = Handle,
            !.fnCalls = @ + 1,
            !.inflight = MapBag([r \in BagToSet(@) |-> Unctrl(r)], @)
                         (+) One([cRetry |-> c.retryCount,
                                  cRunning |-> c.isRunning,
                                  loop |-> loop, manual |-> manual,
                                  retry |-> isRetry, aborted |-> FALSE,
                                  ctrl |-> TRUE])]

\* executePoll up to its await: the invocation of fn begins.  manual marks
\* an invocation made by poll() or by a retry that descends from one.
executePoll(s, c, isRetry, loop, manual) ==
  IF ~s.isActiveRef THEN s
  ELSE [s EXCEPT !.isLoading = TRUE,
                 !.error = IF isRetry THEN @ ELSE Null,
                 !.abortControllerRef = Handle,
                 !.fnCalls = @ + 1,
                 !.inflight = MapBag([r \in BagToSet(@) |-> Unctrl(r)], @)
                              (+) One([cRetry |-> c.retryCount,
                                       cRunning |-> c.isRunning,
                                       loop |-> loop, manual |-> manual,
                                       retry |-> isRetry, aborted |-> FALSE,
                                       ctrl |-> TRUE])]

\* A variant of executePollOutcome that hands the settlement of fn through.
executePollReturnsResult(ok, v) ==
  [kind |-> IF ok THEN "fulfilled" ELSE "rejected", value |-> v]

\* What the promise of executePoll settles with: the function has no return
\* statement and its catch block handles every rejection of fn.
executePollOutcome(ok, v) == [kind |-> "fulfilled", value |-> Undefined]

\* poll(): await executePoll(), nothing returned.
pollOutcome(r, ok, v) ==
  IF r.manual /\ ~r.retry THEN executePollOutcome(ok, v) ELSE NoRet

\* startLongPoll after `await executePoll()`: the pacing delay.
longPollPace(s, r) ==
  IF r.loop /\ s.isActiveRef /\ r.cRunning
  THEN setTimeoutRef(s, "pace", [retryCount |-> r.cRetry, isRunning |-> r.cRunning],
                     FALSE)
  ELSE s

\* A variant of executePollResolved that leaves retryCount as it is.
executePollResolvedKeepsRetryCount(s, r, v) ==
  LET s0 == [s EXCEPT !.inflight = @ (-) One(r), !.ret = pollOutcome(r, TRUE, v)]
  IN IF ~s0.isActiveRef THEN s0
     ELSE [s0 EXCEPT !.data = v, !.error = Null,
                     !.cb = [kind |-> "onSuccess", arg |-> v, count |-> 0],
                     !.isLoading = FALSE]

\* A variant of executePollResolved that leaves error as it is.
executePollResolvedKeepsError(s, r, v) ==
  LET s0 == [s EXCEPT !.inflight = @ (-) One(r), !.ret = pollOutcome(r, TRUE, v)]
  IN IF ~s0.isActiveRef THEN s0
     ELSE [s0 EXCEPT !.data = v, !.retryCount = 0,
                     !.cb = [kind |-> "onSuccess", arg |-> v, count |-> 0],
                     !.isLoading = FALSE]

\* executePoll after the await, fn resolved with v.
executePollResolved(s, r, v) ==
  LET s0 == [s EXCEPT !.inflight = @ (-) One(r), !.ret = pollOutcome(r, TRUE, v)]
  IN IF ~s0.isActiveRef THEN s0
     ELSE [s0 EXCEPT !.data = v, !.retryCount = 0, !.error = Null,
                     !.cb = [kind |-> "onSuccess", arg |-> v, count |-> 0],
                     !.isLoading = FALSE]

\* A variant of executePollRejected whose budget test is off by one.
executePollRejectedOffByOne(s, r, e) ==
  LET s0 == [s EXCEPT !.inflight = @ (-) One(r), !.ret = pollOutcome(r, FALSE, e)]
  IN IF ~s0.isActiveRef THEN s0
     ELSE IF r.cRetry <= maxRetries
          THEN LET s1 == [s0 EXCEPT !.retryCount = r.cRetry + 1,
                                    !.cb = [kind |-> "onError", arg |-> e,
                                            count |-> r.cRetry + 1],
                                    !.isLoading = FALSE]
               IN setTimeoutRef(s1, "retry",
                                [retryCount |-> r.cRetry, isRunning |-> r.cRunning],
                                r.manual)
          ELSE [s0 EXCEPT !.error = e, !.retryCount = 0,
                          !.cb = [kind |-> "onError", arg |-> e,
                                  count |-> r.cRetry + 1],
                          !.isRunning = IF type = "interval" THEN FALSE ELSE @,
                          !.isLoading = FALSE]

\* A variant of executePollRejected that stops the session in every mode.
executePollRejectedStopsAnyMode(s, r, e) ==
  LET s0 == [s EXCEPT !.inflight = @ (-) One(r), !.ret = pollOutcome(r, FALSE, e)]
  IN IF ~s0.isActiveRef THEN s0
     ELSE IF r.cRetry < maxRetries
          THEN LET s1 == [s0 EXCEPT !.retryCount = r.cRetry + 1,
                                    !.cb = [kind |-> "onError", arg |-> e,
                                            count |-> r.cRetry + 1],
                                    !.isLoading = FALSE]
               IN setTimeoutRef(s1, "retry",
                                [retryCount |-> r.cRetry, isRunning |-> r.cRunning],
                                r.manual)
          ELSE [s0 EXCEPT !.error = e, !.retryCount = 0,
                          !.cb = [kind |-> "onError", arg |-> e,
                                  count |-> r.cRetry + 1],
                          !.isRunning = FALSE,
                          !.isLoading = FALSE]

\* executePoll after the await, fn rejected with e.
executePollRejected(s, r, e) ==
  LET s0 == [s EXCEPT !.inflight = @ (-) One(r), !.ret = pollOutcome(r, FALSE, e)]
  IN IF ~s0.isActiveRef THEN s0
     ELSE IF r.cRetry < maxRetries
          THEN LET s1 == [s0 EXCEPT !.retryCount = r.cRetry + 1,
                                    !.cb = [kind |-> "onError", arg |-> e,
                                            count |-> r.cRetry + 1],
                                    !.isLoading = FALSE]
               IN setTimeoutRef(s1, "retry",
                                [retryCount |-> r.cRetry, isRunning |-> r.cRunning],
                                r.manual)
          ELSE [s0 EXCEPT !.error = e, !.retryCount = 0,
                          !.cb = [kind |-> "onError", arg |-> e,
                                  count |-> r.cRetry + 1],
                          !.isRunning = IF type = "interval" THEN FALSE ELSE @,
                          !.isLoading = FALSE]

\* startLongPoll at the head of its while loop.
startLongPoll(s, c) ==
  IF s.isActiveRef /\ c.isRunning
  THEN executePoll(s, c, FALSE, TRUE, FALSE)
  ELSE s

\* The start callback of one render.
start(s) ==
  LET c == Closure(s)
      s1 == [s EXCEPT !.isRunning = TRUE, !.error = Null, !.retryCount = 0]
  IN IF type = "interval"
     THEN LET s2 == IF s1.intervalRef # Null THEN clearIntervalRef(s1) ELSE s1
          IN setIntervalRef(executePoll(s2, c, FALSE, FALSE, FALSE), c)
     ELSE IF type = "long" THEN startLongPoll(s1, c) ELSE s1

\* The stop callback.
stop(s) ==
  LET s1 == [s EXCEPT !.isRunning = FALSE]
      s2 == IF s1.intervalRef # Null
            THEN [clearIntervalRef(s1) EXCEPT !.intervalRef = Null] ELSE s1
      s3 == IF s2.timeoutRef # Null
            THEN [clearTimeoutRef(s2) EXCEPT !.timeoutRef = Null] ELSE s2
      s4 == IF s3.abortControllerRef # Null
            THEN [abort(s3) EXCEPT !.abortControllerRef = Null,
                                   !.inflight = MapBag([r \in BagToSet(@) |-> Unctrl(r)], @)]
            ELSE s3
  IN [s4 EXCEPT !.isLoading = FALSE]

\* poll() up to its await.
poll(s) == executePoll(s, Closure(s), FALSE, FALSE, TRUE)

\* A variant of reset that also drops the data.
resetClearsData(s) == [s EXCEPT !.error = Null, !.retryCount = 0, !.data = Null]

\* reset()
reset(s) == [s EXCEPT !.error = Null, !.retryCount = 0]

\* A variant of returnedStart that runs the start callback itself.
returnedStartRestarts(s) == start([s EXCEPT !.isRunning = TRUE])

\* The start and stop the hook returns.
returnedStart(s) == [s EXCEPT !.isRunning = TRUE]
returnedStop(s) == [s EXCEPT !.isRunning = FALSE]

\* useEffect(..., [isRunning]): after a render in which isRunning changed.
runningEffect(prevRunning, s) ==
  IF s.isRunning = prevRunning THEN s
  ELSE IF s.isRunning THEN start(s) ELSE stop(s)

\* The cleanup of the mount effect.
unmountCleanup(s) ==
  LET s1 == [s EXCEPT !.isActiveRef = FALSE]
      s2 == IF s1.intervalRef # Null THEN clearIntervalRef(s1) ELSE s1
      s3 == IF s2.timeoutRef # Null THEN clearTimeoutRef(s2) ELSE s2
  IN IF s3.abortControllerRef # Null THEN abort(s3) ELSE s3

\* A variant of mount that starts whatever autoStart is.
mountStartsAnyway(a) ==
  LET s0 == [data |-> Null, isLoading |-> FALSE, isRunning |-> TRUE,
             error |-> Null, retryCount |-> 0,
             intervalRef |-> Null, timeoutRef |-> Null,
             abortControllerRef |-> Null, isActiveRef |-> TRUE,
             timers |-> EmptyBag, inflight |-> EmptyBag, fnCalls |-> 0,
             cb |-> NoCb, ret |-> NoRet]
  IN start(s0)

\* The first render and its effects.
mount(a) ==
  LET s0 == [data |-> Null, isLoading |-> FALSE, isRunning |-> a,
             error |-> Null, retryCount |-> 0,
             intervalRef |-> Null, timeoutRef |-> Null,
             abortControllerRef |-> Null, isActiveRef |-> TRUE,
             timers |-> EmptyBag, inflight |-> EmptyBag, fnCalls |-> 0,
             cb |-> NoCb, ret |-> NoRet]
      s1 == IF s0.isRunning THEN start(s0) ELSE stop(s0)
  IN IF a /\ s1.isActiveRef THEN [s1 EXCEPT !.isRunning = TRUE] ELSE s1

Snapshot ==
  [data |-> data, error |-> error, retryCount |-> retryCount,
   isRunning |-> isRunning]

\* What the record of the last operation keeps of an invocation.
Brief(r) ==
  [cRetry |-> r.cRetry, manual |-> r.manual, retry |-> r.retry, aborted |-> r.aborted]

\* The invocation an operation began, if it began one.
Started(s) ==
  IF s.fnCalls > fnCalls THEN CHOOSE r \in BagToSet(s.inflight) : r.ctrl ELSE NoRec

\* Write the cells back and record the operation: r is the invocation that
\* settled, or NoRec.
Commit(s, op, r) ==
  /\ data' = s.data
  /\ isLoading' = s.isLoading
  /\ isRunning' = s.isRunning
  /\ error' = s.error
  /\ retryCount' = s.retryCount
  /\ intervalRef' = s.intervalRef
  /\ timeoutRef' = s.timeoutRef
  /\ abortControllerRef' = s.abortControllerRef
  /\ isActiveRef' = s.isActiveRef
  /\ timers' = s.timers
  /\ inflight' = s.inflight
  /\ fnCalls' = s.fnCalls
  /\ last' = [op |-> op, rec |-> Brief(IF r = NoRec THEN Started(s) ELSE r),
              pre |-> Snapshot, cb |-> s.cb, ret |-> s.ret,
              started |-> s.fnCalls - fnCalls]
  /\ UNCHANGED <<optVars, ev, ws, cd, ft>>

Init ==
  /\ type \in {"interval", "long"}
  /\ maxRetries \in RetryBudgets
  /\ autoStart \in BOOLEAN
  /\ LET s == mount(autoStart)
     IN /\ data = s.data
        /\ isLoading = s.isLoading
        /\ isRunning = s.isRunning
        /\ error = s.error
        /\ retryCount = s.retryCount
        /\ intervalRef = s.intervalRef
        /\ timeoutRef = s.timeoutRef
        /\ abortControllerRef = s.abortControllerRef
        /\ isActiveRef = s.isActiveRef
        /\ timers = s.timers
        /\ inflight = s.inflight
        /\ fnCalls = s.fnCalls
        /\ last = [op |-> "mount",
                   rec |-> Brief(IF s.inflight = EmptyBag THEN NoRec
                                 ELSE CHOOSE r \in BagToSet(s.inflight) : r.ctrl),
                   pre |-> [data |-> Null, error |-> Null, retryCount |-> 0,
                            isRunning |-> autoStart],
                   cb |-> NoCb, ret |-> NoRet, started |-> s.fnCalls]
  /\ sinceStop = FALSE
  /\ quiet = TRUE
  /\ ev = EventAbsent
  /\ ws = SocketAbsent
  /\ cd = CountdownAbsent
  /\ ft = FetchAbsent

\* ------------------------------------------------------------- operations
\* The caller calls start().
UserStart ==
  /\ isActiveRef
  /\ fnCalls < MaxCalls
  /\ Commit(runningEffect(isRunning, returnedStart(Cur)), "start", NoRec)
  /\ sinceStop' = FALSE
  /\ quiet' = FALSE

\* The caller calls stop().
UserStop ==
  /\ isActiveRef
  /\ Commit(runningEffect(isRunning, returnedStop(Cur)), "stop", NoRec)
  /\ sinceStop' = (isRunning \/ sinceStop)
  /\ quiet' = FALSE

\* The caller calls poll().
UserPoll ==
  /\ fnCalls < MaxCalls
  /\ Commit(poll(Cur), "poll", NoRec)
  /\ sinceStop' = FALSE
  /\ quiet' = FALSE

\* The caller calls reset().
UserReset ==
  /\ isActiveRef
  /\ Commit(runningEffect(isRunning, reset(Cur)), "reset", NoRec)
  /\ quiet' = FALSE
  /\ UNCHANGED sinceStop

\* An invocation of fn resolves.
FnResolve ==
  \E r \in BagToSet(inflight) : \E v \in Values :
    /\ Commit(runningEffect(isRunning, longPollPace(executePollResolved(Cur, r, v), r)),
              "resolve", r)
    /\ quiet' = FALSE
    /\ UNCHANGED sinceStop

\* An invocation of fn rejects.
FnReject ==
  \E r \in BagToSet(inflight) : \E e \in Errors :
    /\ Commit(runningEffect(isRunning, longPollPace(executePollRejected(Cur, r, e), r)),
              "reject", r)
    /\ UNCHANGED <<sinceStop, quiet>>

\* The interval timer ticks.
IntervalTick ==
  \E t \in BagToSet(timers) :
    /\ t.kind = "interval"
    /\ fnCalls < MaxCalls
    /\ LET c == [retryCount |-> t.cRetry, isRunning |-> t.cRunning]
           s == IF isActiveRef /\ t.cRunning
                THEN executePoll(Cur, c, FALSE, FALSE, FALSE) ELSE Cur
       IN Commit(runningEffect(isRunning, s), "tick", NoRec)
    /\ quiet' = FALSE
    /\ UNCHANGED sinceStop

\* A retry delay elapses.
RetryTimeout ==
  \E t \in BagToSet(timers) :
    /\ t.kind = "retry"
    /\ fnCalls < MaxCalls
    /\ LET c == [retryCount |-> t.cRetry, isRunning |-> t.cRunning]
           s0 == [Cur EXCEPT !.timers = @ (-) One(t)]
           s == IF s0.isActiveRef /\ t.cRunning
                THEN executePoll(s0, c, TRUE, FALSE, t.manual) ELSE s0
       IN Commit(runningEffect(isRunning, s), "retry", NoRec)
    /\ UNCHANGED <<sinceStop, quiet>>

\* The pacing delay of the long-poll loop elapses.
PacingTimeout ==
  \E t \in BagToSet(timers) :
    /\ t.kind = "pace"
    /\ fnCalls < MaxCalls
    /\ LET c == [retryCount |-> t.cRetry, isRunning |-> t.cRunning]
           s0 == [Cur EXCEPT !.timers = @ (-) One(t)]
       IN Commit(runningEffect(isRunning, startLongPoll(s0, c)), "pace", NoRec)
    /\ UNCHANGED <<sinceStop, quiet>>

\* The host unmounts the component.
Unmount ==
  /\ isActiveRef
  /\ Commit(unmountCleanup(Cur), "unmount", NoRec)
  /\ quiet' = FALSE
  /\ UNCHANGED sinceStop

Next ==
  \/ UserStart
  \/ UserStop
  \/ UserPoll
  \/ UserReset
  \/ FnResolve
  \/ FnReject
  \/ IntervalTick
  \/ RetryTimeout
  \/ PacingTimeout
  \/ Unmount

Spec == Init /\ [][Next]_vars


(***************************************************************************)
(* Part 2: useEvent (the Event Multiplexer).  The hook keeps its arguments *)
(* in refs and a table of the listener groups it attached in               *)
(* elementCallbacksRef.  One effect, whose dependencies are the three      *)
(* arguments by identity, calls addEventListeners and returns a cleanup    *)
(* that calls removeEventListeners.  The cleanup of a render and the       *)
(* effect that follows it are two steps of the model; nothing else runs    *)
(* between them.  The document is a set of elements in a fixed document    *)
(* order; a listener of an element is the (event, callback, capture) triple *)
(* the host keeps for it, with the options it was added with, so adding    *)
(* the same triple twice leaves one listener.                              *)
(***************************************************************************)
Elements == {"b1", "b2", "bx", "d1", "d2", "dx"}
DocumentOrder == <<"b1", "b2", "bx", "d1", "d2", "dx">>
tagName(e) == IF e \in {"b1", "b2", "bx"} THEN "button" ELSE "div"
elementId(e) == IF e \in {"bx", "dx"} THEN "x" ELSE ""

\* A document gives an id to one element at most.
Documents ==
  {d \in SUBSET Elements :
     \A a, b \in d : (elementId(a) # "" /\ elementId(a) = elementId(b)) => a = b}

Range(q) == {q[i] : i \in DOMAIN q}

\* A selector argument: string | string[] | undefined.
Undef == [form |-> "undefined", items |-> <<>>]
StringSel(x) == [form |-> "string", items |-> <<x>>]
ArraySel(q) == [form |-> "array", items |-> q]

IdSels == {Undef, ArraySel(<<"x">>)}
TagSels == {Undef, StringSel("button"), ArraySel(<<"button">>), ArraySel(<<"div">>)}
Events == {"click"}
Callbacks == {"cbA", "cbB"}

\* AddEventListenerOptions: the flags the object defines, each with its value.
NoOptions == {}
CaptureOff == {<<"capture", FALSE>>}
CapturePassive == {<<"capture", TRUE>>, <<"passive", TRUE>>}

\* The value the host reads for the flag f of the options o.
Flag(o, f) == <<f, TRUE>> \in o

\* A variant of spread in which the flags of a win.
spreadFirstWins(a, b) == a \cup {p \in b : \A q \in a : q[1] # p[1]}

\* {...a, ...b}
spread(a, b) == b \cup {p \in a : \A q \in b : q[1] # p[1]}

Bindings ==
  [event : Events, ids : IdSels, targetElements : TagSels, callback : {"undefined"},
   options : {NoOptions}]

BindingLists == UNION {[1..n -> Bindings] : n \in 0..MaxBindings}

\* eventOptions: string | EventOptions | EventOptions[].
EventOptionsValues ==
  {[form |-> "string", event |-> e, configs |-> <<>>] : e \in Events}
    \cup {[form |-> "object", event |-> "", configs |-> <<b>>] : b \in Bindings}
    \cup {[form |-> "array", event |-> "", configs |-> q] : q \in BindingLists}

GlobalConfigs ==
  [ids : {Undef, StringSel("x")}, targetElements : {Undef, StringSel("div")},
   options : {NoOptions}]

\* document.getElementById(i): the first element of the document with the id.
getElementById(doc, i) ==
  LET m == SelectSeq(DocumentOrder, LAMBDA e : e \in doc /\ elementId(e) = i)
  IN IF m = <<>> THEN <<>> ELSE <<m[1]>>

\* A variant of getElementsByTagName that matches every tag.
getElementsByTagNameAny(doc, t) == SelectSeq(DocumentOrder, LAMBDA e : e \in doc)

\* Array.from(document.getElementsByTagName(t))
getElementsByTagName(doc, t) ==
  SelectSeq(DocumentOrder, LAMBDA e : e \in doc /\ tagName(e) = t)

\* Set.add for each member of es, the set kept in insertion order.
RECURSIVE addAll(_, _)
addAll(q, es) ==
  IF es = <<>> THEN q
  ELSE addAll(IF Head(es) \in Range(q) THEN q ELSE Append(q, Head(es)), Tail(es))

\* normalizedIds.forEach(...)
RECURSIVE collectIds(_, _, _)
collectIds(doc, names, acc) ==
  IF names = <<>> THEN acc
  ELSE collectIds(doc, Tail(names), addAll(acc, getElementById(doc, Head(names))))

\* normalizedElements.forEach(...)
RECURSIVE collectTags(_, _, _)
collectTags(doc, names, acc) ==
  IF names = <<>> THEN acc
  ELSE collectTags(doc, Tail(names), addAll(acc, getElementsByTagName(doc, Head(names))))

\* A variant of Coalesce that prefers the default.
CoalesceDefaultFirst(a, b) == IF b.form # "undefined" THEN b ELSE a

\* a ?? b ?? []
Coalesce(a, b) == IF a.form # "undefined" THEN a ELSE b

\* The normalisation of eventOptions to an array of configs.
normalize(eo) ==
  IF eo.form = "string"
  THEN <<[event |-> eo.event, ids |-> Undef, targetElements |-> Undef,
          callback |-> "undefined", options |-> NoOptions]>>
  ELSE eo.configs

\* The final element set of one config: skip is the `continue` of the loop.
finalElements(config, gc, doc) ==
  LET idSet == collectIds(doc, Coalesce(config.ids, gc.ids).items, <<>>)
      elementSet ==
        collectTags(doc, Coalesce(config.targetElements, gc.targetElements).items, <<>>)
  IN IF idSet = <<>> /\ elementSet = <<>> THEN [skip |-> TRUE, elements |-> <<>>]
     ELSE IF idSet = <<>> THEN [skip |-> FALSE, elements |-> elementSet]
     ELSE IF elementSet = <<>> THEN [skip |-> FALSE, elements |-> idSet]
     ELSE [skip |-> FALSE,
           elements |-> SelectSeq(idSet, LAMBDA e : e \in Range(elementSet))]

\* The listener a group stands for on the element e.
ListenerOf(e, g) ==
  [element |-> e, event |-> g.event, callback |-> g.callback,
   capture |-> Flag(g.options, "capture"), options |-> g.options]

\* The listeners a group stands for.
GroupListeners(g) == {ListenerOf(g.elements[i], g) : i \in DOMAIN g.elements}

\* What the host tells listeners of an element apart by.
Key(l) == <<l.element, l.event, l.callback, l.capture>>

\* element.addEventListener(event, callback, options) of the host.
addEventListener(listeners, l) ==
  IF Key(l) \in {Key(k) : k \in listeners} THEN listeners ELSE listeners \cup {l}

\* element.removeEventListener(event, callback, options) of the host, for
\* every element of every group of the table.
removeAll(listeners, groups) ==
  LET gone == UNION {{Key(l) : l \in GroupListeners(groups[i])} : i \in DOMAIN groups}
  IN {k \in listeners : Key(k) \notin gone}

RECURSIVE TotalElements(_)
TotalElements(groups) ==
  IF groups = <<>> THEN 0 ELSE Len(Head(groups).elements) + TotalElements(Tail(groups))

\* A variant of removeEventListeners that empties the table only.
removeEventListenersForgets(s) == [s EXCEPT !.elementCallbacksRef = <<>>]

\* A variant of removeEventListeners that skips elements outside the document.
removeEventListenersInDocument(s) ==
  LET kept == removeAll(s.listeners, s.elementCallbacksRef)
  IN [s EXCEPT !.listeners = kept \cup {l \in @ : l.element \notin s.document},
               !.removes = @ + TotalElements(s.elementCallbacksRef),
               !.elementCallbacksRef = <<>>]

\* A variant of removeEventListeners that stops after the first group.
removeEventListenersFirstGroup(s) ==
  LET first == IF s.elementCallbacksRef = <<>> THEN <<>>
               ELSE <<Head(s.elementCallbacksRef)>>
  IN [s EXCEPT !.listeners = removeAll(@, first),
               !.removes = @ + TotalElements(s.elementCallbacksRef),
               !.elementCallbacksRef = <<>>]

\* The calls of removeEventListener that the two nested forEach make, in order.
RECURSIVE removalCalls(_)
removalCalls(groups) ==
  IF groups = <<>> THEN <<>>
  ELSE [i \in DOMAIN Head(groups).elements |->
          Key(ListenerOf(Head(groups).elements[i], Head(groups)))]
       \o removalCalls(Tail(groups))

\* removeEventListeners()
removeEventListeners(s) ==
  [s EXCEPT !.listeners = removeAll(@, s.elementCallbacksRef),
            !.removes = @ + TotalElements(s.elementCallbacksRef),
            !.removed = @ \o removalCalls(s.elementCallbacksRef),
            !.elementCallbacksRef = <<>>]

\* A variant of attachElements that catches the exception and goes on.
RECURSIVE attachElementsCatches(_, _, _)
attachElementsCatches(s, elements, g) ==
  IF elements = <<>> THEN s
  ELSE IF Head(elements) = s.fault
       THEN attachElementsCatches([s EXCEPT !.adds = @ + 1, !.raised = TRUE],
                                  Tail(elements), g)
       ELSE attachElementsCatches(
              [s EXCEPT !.listeners = addEventListener(@, ListenerOf(Head(elements), g)),
                        !.adds = @ + 1],
              Tail(elements), g)

\* elements.forEach(element => element.addEventListener(...)).  s.fault is
\* the element whose addEventListener throws, if there is one: the exception
\* ends the loop.
RECURSIVE attachElements(_, _, _)
attachElements(s, elements, g) ==
  IF elements = <<>> THEN s
  ELSE IF Head(elements) = s.fault
       THEN [s EXCEPT !.adds = @ + 1, !.raised = TRUE, !.threw = TRUE]
       ELSE attachElements(
              [s EXCEPT !.listeners = addEventListener(@, ListenerOf(Head(elements), g)),
                        !.adds = @ + 1],
              Tail(elements), g)

\* The loop of addEventListeners over the configs that are left.  An
\* exception leaves the function before the table is assigned.
RECURSIVE attach(_, _, _)
attach(s, configs, newElementCallbacks) ==
  IF configs = <<>> THEN [s EXCEPT !.elementCallbacksRef = newElementCallbacks]
  ELSE LET config == Head(configs)
           configCallback == IF config.callback # "undefined" THEN config.callback
                             ELSE s.globalCallbackRef
           configOptions == spread(s.globalConfigRef.options, config.options)
           f == finalElements(config, s.globalConfigRef, s.document)
           g == [event |-> config.event, elements |-> f.elements,
                 callback |-> configCallback, options |-> configOptions]
           s1 == attachElements(s, f.elements, g)
       IN IF f.skip THEN attach(s, Tail(configs), newElementCallbacks)
          ELSE IF s1.threw THEN s1
          ELSE attach(s1, Tail(configs), Append(newElementCallbacks, g))

\* addEventListeners()
addEventListeners(s) ==
  attach(removeEventListeners(s), normalize(s.eventOptionsRef), <<>>)

\* A variant of effect that leaves the refs as they are.
effectKeepsRefs(s, callback, eventOptions, globalConfig) ==
  addEventListeners([s EXCEPT !.adds = 0])

\* The effect of a render: the refs take the arguments, then the listeners
\* are set up.  adds and removes count the calls made since the last cleanup
\* began.
effect(s, callback, eventOptions, globalConfig) ==
  addEventListeners([s EXCEPT !.eventOptionsRef = eventOptions,
                              !.globalConfigRef = globalConfig,
                              !.globalCallbackRef = callback,
                              !.adds = 0])

\* The first render, against the document doc: the refs hold the arguments.
useEvent(callback, eventOptions, globalConfig, doc) ==
  [document |-> doc, globalCallbackRef |-> callback,
   eventOptionsRef |-> eventOptions, globalConfigRef |-> globalConfig,
   elementCallbacksRef |-> <<>>, listeners |-> {}, adds |-> 0, removes |-> 0,
   fault |-> "none", raised |-> FALSE, threw |-> FALSE, peer |-> <<>>,
   removed |-> <<>>]

\* What the steps record besides the hook's own cells: pc (whether a cleanup
\* ran and its effect is due), op (the last step), sameArgs (the last effect
\* got the arguments of the one before, by value), staleDoc (the document had
\* changed between those two effects), domChanged (the document changed since
\* the last effect) and prev (the listeners before the cleanup, kept until
\* the effect).  fault is kept when its addEventListener was called, raised
\* tells that it was, threw that the exception left addEventListeners; peer
\* is the table of another instance on the same document; removed is the
\* sequence of removeEventListener calls of the cleanup, kept until the effect.
Ghost(s, pc, op, sameArgs, staleDoc, domChanged, prev) ==
  [document |-> s.document, globalCallbackRef |-> s.globalCallbackRef,
   eventOptionsRef |-> s.eventOptionsRef, globalConfigRef |-> s.globalConfigRef,
   elementCallbacksRef |-> s.elementCallbacksRef, listeners |-> s.listeners,
   adds |-> s.adds, removes |-> s.removes,
   fault |-> IF s.raised THEN s.fault ELSE "none",
   raised |-> s.raised, threw |-> s.threw, peer |-> s.peer,
   removed |-> IF pc \in {"setup", "unmounted"} THEN s.removed ELSE <<>>,
   pc |-> pc, op |-> op, sameArgs |-> sameArgs, staleDoc |-> staleDoc,
   domChanged |-> domChanged, prev |-> prev]

\* No usePolling instance is mounted.
PollingAbsent ==
  /\ type = "interval"
  /\ maxRetries = 0
  /\ autoStart = FALSE
  /\ data = Null
  /\ isLoading = FALSE
  /\ isRunning = FALSE
  /\ error = Null
  /\ retryCount = 0
  /\ intervalRef = Null
  /\ timeoutRef = Null
  /\ abortControllerRef = Null
  /\ isActiveRef = FALSE
  /\ timers = EmptyBag
  /\ inflight = EmptyBag
  /\ fnCalls = 0
  /\ last = [op |-> "none", rec |-> Brief(NoRec),
             pre |-> [data |-> Null, error |-> Null, retryCount |-> 0,
                      isRunning |-> FALSE],
             cb |-> NoCb, ret |-> NoRet, started |-> 0]
  /\ sinceStop = FALSE
  /\ quiet = TRUE

\* The eventOptions the renders of a component's life are given: a bare event
\* name, one config, and arrays whose configs select apart and overlapping.
IdsX == ArraySel(<<"x">>)
OnButtons == [event |-> "click", ids |-> Undef,
              targetElements |-> StringSel("button"), callback |-> "undefined",
              options |-> NoOptions]
OnButtonX == [event |-> "click", ids |-> IdsX,
              targetElements |-> ArraySel(<<"button">>), callback |-> "undefined",
              options |-> NoOptions]
OnX == [event |-> "click", ids |-> IdsX, targetElements |-> Undef,
        callback |-> "undefined", options |-> NoOptions]
OnDivs == [event |-> "click", ids |-> Undef,
           targetElements |-> ArraySel(<<"div">>), callback |-> "undefined",
           options |-> NoOptions]
\* A config with a callback and options of its own.
OnDivsOwn == [event |-> "click", ids |-> Undef,
              targetElements |-> ArraySel(<<"div">>), callback |-> "cbC",
              options |-> CaptureOff]

RenderOptions ==
  {[form |-> "string", event |-> "click", configs |-> <<>>],
   [form |-> "object", event |-> "", configs |-> <<OnButtons>>],
   [form |-> "array", event |-> "", configs |-> <<OnButtonX>>],
   [form |-> "array", event |-> "", configs |-> <<OnX, OnDivs>>],
   [form |-> "array", event |-> "", configs |-> <<OnButtons, OnX>>],
   [form |-> "array", event |-> "", configs |-> <<OnButtons, OnDivsOwn>>]}

\* The global configs of those renders: none, and a default tag with default
\* options.
NoGlobal == [ids |-> Undef, targetElements |-> Undef, options |-> NoOptions]
RenderGlobalConfigs ==
  {NoGlobal,
   [ids |-> Undef, targetElements |-> StringSel("div"), options |-> CapturePassive]}

\* The elements whose addEventListener the host can make throw.
Faults == {"none", "b2"}

\* A component is constructed with arguments drawn from the whole domain.
ResolveInit ==
  /\ PollingAbsent
  /\ ws = SocketAbsent
  /\ cd = CountdownAbsent
  /\ ft = FetchAbsent
  /\ \E callback \in Callbacks, eventOptions \in EventOptionsValues,
        globalConfig \in GlobalConfigs, doc \in Documents :
       ev = Ghost(useEvent(callback, eventOptions, globalConfig, doc),
                  "mount", "render", FALSE, FALSE, FALSE, {})

\* A component is constructed with arguments a later render can repeat.
EventInit ==
  /\ PollingAbsent
  /\ ws = SocketAbsent
  /\ cd = CountdownAbsent
  /\ ft = FetchAbsent
  /\ \E callback \in Callbacks, eventOptions \in RenderOptions,
        globalConfig \in RenderGlobalConfigs, doc \in Documents :
       ev = Ghost(useEvent(callback, eventOptions, globalConfig, doc),
                  "mount", "render", FALSE, FALSE, FALSE, {})

\* Where the component is after an effect that left r.
After(r) == IF r.threw THEN "failed" ELSE "idle"

\* The effect of the first render.
Mount ==
  /\ ev.pc = "mount"
  /\ \E fault \in Faults :
       LET r == effect([ev EXCEPT !.fault = fault], ev.globalCallbackRef,
                       ev.eventOptionsRef, ev.globalConfigRef)
       IN ev' = Ghost(r, After(r), "setup", FALSE, FALSE, FALSE, {})
  /\ UNCHANGED <<pollingVars, ws, cd, ft>>

\* A render with the arguments of the render before, by identity: the
\* dependencies of the effect are unchanged, so neither the cleanup nor the
\* effect runs.
rerender(s) == s

Rerender ==
  /\ ev.pc = "idle"
  /\ ev' = Ghost(rerender(ev), "idle", "render", FALSE, FALSE, ev.domChanged, {})
  /\ UNCHANGED <<pollingVars, ws, cd, ft>>

\* A render with an argument of a new identity: the cleanup of the effect.
EffectCleanup ==
  /\ ev.pc = "idle"
  /\ ev' = Ghost(removeEventListeners([ev EXCEPT !.removes = 0]),
                 "setup", "cleanup", FALSE, FALSE, ev.domChanged, ev.listeners)
  /\ UNCHANGED <<pollingVars, ws, cd, ft>>

\* The effect of that render, with the arguments the render was given.
Effect ==
  /\ ev.pc = "setup"
  /\ \E callback \in Callbacks, eventOptions \in RenderOptions,
        globalConfig \in RenderGlobalConfigs, fault \in Faults :
       LET r == effect([ev EXCEPT !.fault = fault], callback, eventOptions,
                       globalConfig)
       IN ev' = Ghost(r, After(r), "setup",
                      /\ callback = ev.globalCallbackRef
                      /\ eventOptions = ev.eventOptionsRef
                      /\ globalConfig = ev.globalConfigRef,
                      ev.domChanged, FALSE, {})
  /\ UNCHANGED <<pollingVars, ws, cd, ft>>

\* The host unmounts the component: the cleanup of the effect.
EventUnmount ==
  /\ ev.pc = "idle"
  /\ ev' = Ghost(removeEventListeners([ev EXCEPT !.removes = 0]),
                 "unmounted", "unmount", FALSE, FALSE, ev.domChanged, {})
  /\ UNCHANGED <<pollingVars, ws, cd, ft>>

\* The host discards a component whose effect threw.  The effect returned no
\* cleanup, and the cleanup of the effect before it has run already, so
\* nothing of the hook runs.
FailedUnmount ==
  /\ ev.pc = "failed"
  /\ ev' = Ghost(ev, "unmounted", "unmount", FALSE, FALSE, ev.domChanged, {})
  /\ UNCHANGED <<pollingVars, ws, cd, ft>>

\* An element leaves the document.
DomRemove ==
  /\ ev.pc = "idle"
  /\ \E e \in ev.document :
       ev' = [ev EXCEPT !.document = @ \ {e}, !.domChanged = TRUE]
  /\ UNCHANGED <<pollingVars, ws, cd, ft>>

\* An element enters the document.
DomInsert ==
  /\ ev.pc = "idle"
  /\ \E e \in Elements \ ev.document :
       /\ ev.document \cup {e} \in Documents
       /\ ev' = [ev EXCEPT !.document = @ \cup {e}, !.domChanged = TRUE]
  /\ UNCHANGED <<pollingVars, ws, cd, ft>>

EventNext ==
  \/ Mount
  \/ Rerender
  \/ EffectCleanup
  \/ Effect
  \/ EventUnmount
  \/ FailedUnmount
  \/ DomRemove
  \/ DomInsert

EventSpec == EventInit /\ [][EventNext]_vars

\* The resolution of every binding against every document: one mount each.
ResolveSpec == ResolveInit /\ [][Mount]_vars

\* Two components on one document.  The other component listens on the
\* buttons with its own callback argument and is mounted first; peer is its
\* table, and the host keeps the listeners of both in the one list of each
\* element.  The steps are those of the component constructed second.
PeerOptions == [form |-> "object", event |-> "", configs |-> <<OnButtons>>]

PairInit ==
  /\ PollingAbsent
  /\ ws = SocketAbsent
  /\ cd = CountdownAbsent
  /\ ft = FetchAbsent
  /\ \E peerCallback \in Callbacks, callback \in Callbacks,
        eventOptions \in RenderOptions, globalConfig \in RenderGlobalConfigs,
        doc \in Documents :
       LET other == effect(useEvent(peerCallback, PeerOptions, NoGlobal, doc),
                           peerCallback, PeerOptions, NoGlobal)
       IN ev = Ghost([useEvent(callback, eventOptions, globalConfig, doc)
                        EXCEPT !.listeners = other.listeners,
                               !.peer = other.elementCallbacksRef],
                     "mount", "render", FALSE, FALSE, FALSE, {})

PairNext ==
  \/ Mount
  \/ Rerender
  \/ EffectCleanup
  \/ Effect
  \/ EventUnmount
  \/ FailedUnmount

PairSpec == PairInit /\ [][PairNext]_vars

\* =========================================================================
\* Part 3: useWebSocket.  A socket is a record of its ready state and of the
\* reconnectCount its handlers captured: the handlers are closures of the
\* connect that created the socket, and the timer a close handler sets calls
\* that same connect.  wsRef is Null or the number of the socket it refers to.
\* A reconnect timer is a record of the captured reconnectCount and of
\* whether reconnectTimeoutRef holds its handle.
CONNECTING == 0
OPEN == 1
CLOSING == 2
CLOSED == 3

\* ws.close(): a socket that is connecting or open starts closing; the host
\* delivers its close event later.
close(sockets, i) ==
  IF i = Null THEN sockets
  ELSE IF sockets[i].readyState \in {CONNECTING, OPEN}
       THEN [sockets EXCEPT ![i].readyState = CLOSING]
       ELSE sockets

\* clearTimeout(reconnectTimeoutRef.current)
clearReconnectTimeout(s) ==
  [s EXCEPT !.timers = FilterBag({t \in BagToSet(@) : ~t.held}, @)]

\* connect, as created by a render whose reconnectCount was c.  new WebSocket
\* throws on a url that is not valid, and the catch block reports it.
connect(s, c) ==
  IF ~s.mountedRef THEN s
  ELSE LET s1 == [s EXCEPT !.sockets = close(@, s.wsRef)]
       IN IF ~s1.validUrl
          THEN [s1 EXCEPT !.cb = Append(@, "onError")]
          ELSE [s1 EXCEPT !.sockets = Append(@, [readyState |-> CONNECTING,
                                                 reconnectCount |-> c]),
                          !.wsRef = Len(s1.sockets) + 1,
                          !.shouldConnectRef = TRUE,
                          !.readyState = CONNECTING]

\* The auto-connect effect depends on connect, and connect on reconnectCount:
\* a render in which reconnectCount differs from the render before runs it.
autoConnectEffect(s, before) ==
  IF s.autoConnect /\ s.reconnectCount # before
  THEN connect(s, s.reconnectCount)
  ELSE s

\* ws.onopen of socket i.
onopen(s, i) ==
  LET s1 == [s EXCEPT !.sockets[i].readyState = OPEN]
  IN IF ~s.mountedRef THEN s1
     ELSE autoConnectEffect([s1 EXCEPT !.readyState = OPEN,
                                       !.isReconnecting = FALSE,
                                       !.reconnectCount = 0,
                                       !.cb = Append(@, "onOpen"),
                                       !.attempts = 0],
                            s.reconnectCount)

\* ws.onclose of socket i.
onclose(s, i) ==
  LET c == s.sockets[i].reconnectCount
      s1 == [s EXCEPT !.sockets[i].readyState = CLOSED]
  IN IF ~s.mountedRef THEN s1
     ELSE LET s2 == [s1 EXCEPT !.readyState = CLOSED, !.cb = Append(@, "onClose")]
          IN IF s.shouldReconnect /\ s.shouldConnectRef /\ c < s.reconnectAttempts
             THEN autoConnectEffect(
                    [s2 EXCEPT !.isReconnecting = TRUE,
                               !.reconnectCount = @ + 1,
                               !.timers =
                                  MapBag([t \in BagToSet(s.timers) |->
                                            [t EXCEPT !.held = FALSE]], s.timers)
                                  (+) One([reconnectCount |-> c, held |-> TRUE])],
                    s.reconnectCount)
             ELSE [s2 EXCEPT !.isReconnecting = FALSE]

\* ws.onerror
onerror(s) ==
  IF ~s.mountedRef THEN s ELSE [s EXCEPT !.cb = Append(@, "onError")]

\* ws.onmessage
onmessage(s, m) ==
  IF ~s.mountedRef THEN s
  ELSE [s EXCEPT !.lastMessage = m, !.cb = Append(@, "onMessage")]

\* The callback of a reconnect timer set by a socket that captured c.
reconnectTimeout(s, c) ==
  IF s.mountedRef /\ s.shouldConnectRef
  THEN connect([s EXCEPT !.attempts = @ + 1], c)
  ELSE s

disconnect(s) ==
  LET s1 == clearReconnectTimeout([s EXCEPT !.shouldConnectRef = FALSE,
                                            !.isReconnecting = FALSE])
  IN [s1 EXCEPT !.sockets = close(@, s.wsRef)]

\* reconnect of the current render, whose connect captured s.reconnectCount.
reconnect(s) ==
  autoConnectEffect(connect([s EXCEPT !.reconnectCount = 0], s.reconnectCount),
                    s.reconnectCount)

sendMessage(s) ==
  IF s.wsRef # Null /\ s.sockets[s.wsRef].readyState = OPEN
  THEN [s EXCEPT !.cb = Append(@, "send")]
  ELSE [s EXCEPT !.cb = Append(@, "warn")]

\* The cleanup of the mount effect.
socketCleanup(s) ==
  LET s1 == clearReconnectTimeout([s EXCEPT !.mountedRef = FALSE])
  IN [s1 EXCEPT !.sockets = close(@, s.wsRef)]

\* The hook as the first render leaves it.  attempts counts the calls of
\* connect made by reconnect timers since the last open or the last call of
\* connect or reconnect by the caller.
useWebSocket(shouldReconnect, reconnectAttempts, autoConnect, validUrl) ==
  [pc |-> "live", op |-> "mount",
   shouldReconnect |-> shouldReconnect, reconnectAttempts |-> reconnectAttempts,
   autoConnect |-> autoConnect, validUrl |-> validUrl,
   lastMessage |-> Null, readyState |-> CLOSED, isReconnecting |-> FALSE,
   reconnectCount |-> 0,
   wsRef |-> Null, shouldConnectRef |-> autoConnect, mountedRef |-> TRUE,
   sockets |-> <<>>, timers |-> EmptyBag, cb |-> <<>>, attempts |-> 0]

\* The effects of the first render: the auto-connect effect, then the url
\* effect.
socketMount(s) ==
  LET s1 == IF s.autoConnect THEN connect(s, 0) ELSE s
  IN IF s1.shouldConnectRef THEN connect(s1, 0) ELSE s1

SocketInit ==
  /\ PollingAbsent
  /\ ev = EventAbsent
  /\ cd = CountdownAbsent
  /\ ft = FetchAbsent
  /\ \E shouldReconnect \in BOOLEAN, autoConnect \in BOOLEAN, validUrl \in BOOLEAN,
        reconnectAttempts \in 0..MaxReconnectAttempts :
       ws = socketMount(useWebSocket(shouldReconnect, reconnectAttempts,
                                     autoConnect, validUrl))

\* The handler ran and left r.
SocketCommit(r, op) ==
  /\ Len(r.sockets) <= MaxSockets
  /\ ws' = [r EXCEPT !.op = op]
  /\ UNCHANGED <<pollingVars, ev, cd, ft>>

SocketBegin == [ws EXCEPT !.cb = <<>>]

Pending(i) == ws.sockets[i].readyState # CLOSED

UserConnect ==
  /\ ws.pc = "live"
  /\ SocketCommit(connect([SocketBegin EXCEPT !.attempts = 0], ws.reconnectCount),
                  "connect")

UserDisconnect ==
  /\ ws.pc = "live"
  /\ SocketCommit(disconnect(SocketBegin), "disconnect")

UserReconnect ==
  /\ ws.pc = "live"
  /\ SocketCommit(reconnect([SocketBegin EXCEPT !.attempts = 0]), "reconnect")

UserSend ==
  /\ ws.pc = "live"
  /\ SocketCommit(sendMessage(SocketBegin), "send")

\* The host opens a connecting socket.
SocketOpened ==
  \E i \in DOMAIN ws.sockets :
    /\ ws.sockets[i].readyState = CONNECTING
    /\ SocketCommit(onopen(SocketBegin, i), "open")

\* The host closes a socket: the connection was lost or could not be made,
\* or the close the hook asked for is complete.
SocketClosed ==
  \E i \in DOMAIN ws.sockets :
    /\ Pending(i)
    /\ SocketCommit(onclose(SocketBegin, i), "close")

SocketError ==
  \E i \in DOMAIN ws.sockets :
    /\ Pending(i)
    /\ SocketCommit(onerror(SocketBegin), "error")

SocketMessage ==
  \E i \in DOMAIN ws.sockets, m \in Values :
    /\ ws.sockets[i].readyState \in {OPEN, CLOSING}
    /\ SocketCommit(onmessage(SocketBegin, m), "message")

\* The host fires a reconnect timer.
ReconnectTimeout ==
  \E t \in BagToSet(ws.timers) :
    SocketCommit(reconnectTimeout([SocketBegin EXCEPT !.timers = @ (-) One(t)],
                                  t.reconnectCount),
                 "timeout")

SocketUnmount ==
  /\ ws.pc = "live"
  /\ SocketCommit([socketCleanup(SocketBegin) EXCEPT !.pc = "unmounted"], "unmount")

SocketNext ==
  \/ UserConnect
  \/ UserDisconnect
  \/ UserReconnect
  \/ UserSend
  \/ SocketOpened
  \/ SocketClosed
  \/ SocketError
  \/ SocketMessage
  \/ ReconnectTimeout
  \/ SocketUnmount

SocketSpec == SocketInit /\ [][SocketNext]_vars

\* =========================================================================
\* Part 4: useCountdown.  Times are in milliseconds.  The clock of the host
\* is part of the state: calculateTimeLeft reads it, and the host fires the
\* interval only when the interval's period has passed since it was set or
\* last fired.  The state updates a handler queues and the effects of the
\* render that applies them are one step.
MaxSeconds == 2
MaxClock == 3
MsPerSecond == 1000
DefaultInterval == 1000
ClockStep == DefaultInterval \div 2

Max(a, b) == IF a >= b THEN a ELSE b

TargetDates == {Undefined, 1 * MsPerSecond, 2 * MsPerSecond}
Intervals == {DefaultInterval, DefaultInterval + ClockStep}

CountdownOptions ==
  [targetDate : TargetDates, initialSeconds : 0..MaxSeconds,
   autoStart : BOOLEAN, interval : Intervals]

calculateTimeLeft(targetDate, now) == Max(0, targetDate - now)

getInitialTime(s) ==
  IF s.options.targetDate # Undefined
    THEN calculateTimeLeft(s.options.targetDate, s.now)
    ELSE s.options.initialSeconds * MsPerSecond

\* The first render: the initial values of the state and of the refs.
\* ticking: the host has a live interval; since: when it was set or last fired.
useCountdown(options, now) ==
  LET s == [options |-> options, now |-> now]
  IN [pc |-> "rendered", op |-> "render", options |-> options, now |-> now,
      timeLeft |-> getInitialTime(s), isActive |-> options.autoStart,
      isCompleted |-> FALSE, intervalRef |-> Null, ticking |-> FALSE,
      since |-> now]

\* "Reset when target changes"
targetEffect(s) ==
  LET newTime == getInitialTime(s)
  IN [s EXCEPT !.timeLeft = newTime,
               !.isCompleted = (newTime = 0),
               !.isActive = IF s.options.autoStart /\ newTime > 0 THEN TRUE ELSE @]

\* "Main countdown effect", after the cleanup of its previous run.
countdownEffect(s) ==
  IF ~s.isActive \/ s.isCompleted
    THEN [s EXCEPT !.intervalRef = Null, !.ticking = FALSE]
    ELSE [s EXCEPT !.intervalRef = Handle, !.ticking = TRUE, !.since = s.now]

TargetDeps(s) == <<s.options.targetDate, s.options.initialSeconds, s.options.autoStart>>
CountdownDeps(s) == <<s.isActive, s.isCompleted, s.options.targetDate, s.options.interval>>

\* The render that applies the state `after` and its effects: an effect runs
\* when one of its dependencies differs from the render before; the state
\* updates of the target effect cause one more render.
countdownRender(before, after) ==
  LET s1 == IF TargetDeps(before) # TargetDeps(after) THEN targetEffect(after) ELSE after
      s2 == IF CountdownDeps(before) # CountdownDeps(after)
              THEN countdownEffect([s1 EXCEPT !.isActive = after.isActive,
                                              !.isCompleted = after.isCompleted])
              ELSE s1
      s3 == [s2 EXCEPT !.isActive = s1.isActive, !.isCompleted = s1.isCompleted]
  IN IF CountdownDeps(s3) # CountdownDeps(after)
       THEN countdownEffect(s3)
       ELSE s3

\* The effects of the first render: every effect runs, with the values of
\* the first render; the state updates of the target effect cause a render.
countdownMount(s) ==
  LET s1 == targetEffect(s)
      s2 == countdownEffect([s1 EXCEPT !.isActive = s.isActive,
                                       !.isCompleted = s.isCompleted])
      s3 == [s2 EXCEPT !.isActive = s1.isActive, !.isCompleted = s1.isCompleted]
  IN IF CountdownDeps(s3) # CountdownDeps(s)
       THEN countdownEffect(s3)
       ELSE s3

\* The callback of the interval.
tick(s) ==
  LET newTime == IF s.options.targetDate # Undefined
                   THEN calculateTimeLeft(s.options.targetDate, s.now)
                   ELSE Max(0, s.timeLeft - s.options.interval)
      s1 == [s EXCEPT !.timeLeft = newTime, !.since = s.now]
  IN IF newTime = 0
       THEN [s1 EXCEPT !.isActive = FALSE, !.isCompleted = TRUE]
       ELSE s1

countdownStart(s) == IF ~s.isCompleted THEN [s EXCEPT !.isActive = TRUE] ELSE s

countdownPause(s) == [s EXCEPT !.isActive = FALSE]

countdownReset(s) ==
  LET newTime == getInitialTime(s)
  IN [s EXCEPT !.timeLeft = newTime,
               !.isCompleted = (newTime = 0),
               !.isActive = s.options.autoStart /\ newTime > 0]

\* What the hook returns as timeLeft: whole seconds.
ReturnedTimeLeft(s) == s.timeLeft \div MsPerSecond

CountdownInit ==
  /\ PollingAbsent
  /\ ev = EventAbsent
  /\ ws = SocketAbsent
  /\ ft = FetchAbsent
  /\ \E options \in CountdownOptions : cd = useCountdown(options, 0)

CountdownCommit(r, op) ==
  /\ cd' = [r EXCEPT !.op = op]
  /\ UNCHANGED <<pollingVars, ev, ws, ft>>

\* The effects of the first render run.
CountdownMount ==
  /\ cd.pc = "rendered"
  /\ CountdownCommit([countdownMount(cd) EXCEPT !.pc = "live"], "mount")

\* Time passes on the host.
ClockTick ==
  /\ cd.pc \in {"rendered", "live"}
  /\ cd.now + ClockStep <= MaxClock * MsPerSecond
  /\ CountdownCommit([cd EXCEPT !.now = @ + ClockStep], "clock")

\* The host fires the interval.
IntervalFires ==
  /\ cd.pc = "live"
  /\ cd.ticking
  /\ cd.now - cd.since >= cd.options.interval
  /\ CountdownCommit(countdownRender(cd, tick(cd)), "tick")

CountdownStart ==
  /\ cd.pc = "live"
  /\ CountdownCommit(countdownRender(cd, countdownStart(cd)), "start")

CountdownPause ==
  /\ cd.pc = "live"
  /\ CountdownCommit(countdownRender(cd, countdownPause(cd)), "pause")

CountdownReset ==
  /\ cd.pc = "live"
  /\ CountdownCommit(countdownRender(cd, countdownReset(cd)), "reset")

\* The component renders with other options.
CountdownRerender ==
  /\ cd.pc = "live"
  /\ \E options \in CountdownOptions :
       /\ options # cd.options
       /\ CountdownCommit(countdownRender(cd, [cd EXCEPT !.options = options]),
                          "render")

\* The cleanup of the main effect.
CountdownUnmount ==
  /\ cd.pc = "live"
  /\ CountdownCommit([cd EXCEPT !.pc = "unmounted", !.ticking = FALSE], "unmount")

CountdownNext ==
  \/ CountdownMount
  \/ ClockTick
  \/ IntervalFires
  \/ CountdownStart
  \/ CountdownPause
  \/ CountdownReset
  \/ CountdownRerender
  \/ CountdownUnmount

CountdownSpec == CountdownInit /\ [][CountdownNext]_vars

\* =========================================================================
\* Part 5: useFetch.  An execute() call is a record of where its
\* executeWithRetry chain stands: the attempt number, whether its request is
\* in flight ("fetching"), whether it waits for the retry delay ("waiting",
\* with timer telling whether the host still holds the retry timer), or
\* whether its promise settled ("settled").  A controller and a retry timer
\* are named by the call and the attempt that made them.  The options object
\* and its members are the same objects at every render, so that execute
\* keeps its identity and the effect that calls it runs once; no customCache
\* is given, so that execute never answers from the cache.
MaxAttempts == 2
MaxExecutes == 2

\* abortControllerRef and retryTimeoutRef before anything was assigned
NoRef == <<>>

\* executeWithRetry(requestOptions, n) of call i up to its await of fetch
executeWithRetry(s, i, n) ==
  LET e == [phase |-> "fetching", attempt |-> n, signalled |-> FALSE,
            timer |-> FALSE]
  IN [s EXCEPT !.abortControllerRef = <<i, n>>,
               !.execs = IF i \in DOMAIN @ THEN [@ EXCEPT ![i] = e]
                                           ELSE Append(@, e),
               !.requests = @ + 1]

\* the promise of executeWithRetry settled: execute's finally
executeFinally(s, i) ==
  [s EXCEPT !.loading = FALSE, !.execs[i].phase = "settled"]

\* the promise that a retry timer resolves
retryLater(s, i) ==
  [s EXCEPT !.retryTimeoutRef = <<i, s.execs[i].attempt>>,
            !.execs[i].phase = "waiting", !.execs[i].timer = TRUE]

\* the catch block of executeWithRetry
fetchCatch(s, i, abortError) ==
  IF abortError
    THEN executeFinally([s EXCEPT !.aborted = TRUE], i)
    ELSE IF s.execs[i].attempt < s.attempts
      THEN retryLater(s, i)
      ELSE executeFinally([s EXCEPT !.error = 1], i)

\* the response arrived: ok, or not ok with a status that retryOn
\* includes or does not include
fetchResolved(s, i, ok, retryOn) ==
  IF ok
    THEN executeFinally([s EXCEPT !.response = 1, !.data = 1, !.error = Null], i)
    ELSE IF s.execs[i].attempt < s.attempts /\ retryOn
      THEN retryLater(s, i)
      ELSE fetchCatch(s, i, FALSE)

\* controller.abort() of the controller that call i made for attempt n
controllerAbort(s, c) ==
  IF /\ c[1] \in DOMAIN s.execs
     /\ s.execs[c[1]].phase = "fetching"
     /\ s.execs[c[1]].attempt = c[2]
    THEN [s EXCEPT !.execs[c[1]].signalled = TRUE]
    ELSE s

\* clearTimeout of the retry timer that call i set after attempt n
clearRetryTimeout(s, t) ==
  IF /\ t[1] \in DOMAIN s.execs
     /\ s.execs[t[1]].phase = "waiting"
     /\ s.execs[t[1]].attempt = t[2]
    THEN [s EXCEPT !.execs[t[1]].timer = FALSE]
    ELSE s

fetchAbort(s) ==
  LET s1 == IF s.abortControllerRef # NoRef
              THEN [controllerAbort(s, s.abortControllerRef) EXCEPT !.aborted = TRUE]
              ELSE s
  IN IF s1.retryTimeoutRef # NoRef
       THEN clearRetryTimeout(s1, s1.retryTimeoutRef)
       ELSE s1

fetchReset(s) ==
  [s EXCEPT !.data = Null, !.error = Null, !.response = Null,
            !.loading = FALSE, !.aborted = FALSE]

execute(s) ==
  executeWithRetry([s EXCEPT !.loading = TRUE, !.error = Null, !.aborted = FALSE],
                   Len(s.execs) + 1, 0)

\* The first render and its effects: execute() when immediate.
useFetch(attempts, immediate) ==
  LET s == [pc |-> "live", op |-> "mount", attempts |-> attempts,
            immediate |-> immediate, data |-> Null, loading |-> FALSE,
            error |-> Null, response |-> Null, aborted |-> FALSE,
            abortControllerRef |-> NoRef, retryTimeoutRef |-> NoRef,
            execs |-> <<>>, requests |-> 0, during |-> {}, hit |-> {}]
  IN IF immediate THEN execute(s) ELSE s

\* The calls whose promise has not settled, and the phases they are in.
Outstanding(s) == {i \in DOMAIN s.execs : s.execs[i].phase # "settled"}
OutstandingPhases(s) == {s.execs[i].phase : i \in Outstanding(s)}

\* The calls an abort() reaches: the one whose request its controller
\* carries, and the one whose retry timer retryTimeoutRef holds.
Reached(s) ==
  {i \in Outstanding(s) :
     \/ /\ s.execs[i].phase = "fetching"
        /\ s.abortControllerRef = <<i, s.execs[i].attempt>>
     \/ /\ s.execs[i].phase = "waiting"
        /\ s.execs[i].timer
        /\ s.retryTimeoutRef = <<i, s.execs[i].attempt>>}

FetchInit ==
  /\ PollingAbsent
  /\ ev = EventAbsent
  /\ ws = SocketAbsent
  /\ cd = CountdownAbsent
  /\ \E attempts \in 0..MaxAttempts, immediate \in BOOLEAN :
       ft = useFetch(attempts, immediate)

FetchCommit(r, op) ==
  /\ ft' = [r EXCEPT !.op = op]
  /\ UNCHANGED <<pollingVars, ev, ws, cd>>

UserExecute ==
  /\ ft.pc = "live"
  /\ Len(ft.execs) < MaxExecutes
  /\ FetchCommit(execute(ft), "execute")

UserAbort ==
  /\ ft.pc = "live"
  /\ FetchCommit([fetchAbort(ft) EXCEPT !.during = OutstandingPhases(ft),
                                        !.hit = @ \cup Reached(ft)],
                 "abort")

FetchUserReset ==
  /\ ft.pc = "live"
  /\ FetchCommit(fetchReset(ft), "reset")

\* The request of call i is answered.
FetchResolved ==
  \E i \in DOMAIN ft.execs, ok \in BOOLEAN, retryOn \in BOOLEAN :
    /\ ft.execs[i].phase = "fetching"
    /\ ~ft.execs[i].signalled
    /\ ok => retryOn
    /\ FetchCommit(fetchResolved(ft, i, ok, retryOn), "resolved")

\* The request of call i fails: with an AbortError when its controller was
\* aborted, with a network error otherwise.
FetchRejected ==
  \E i \in DOMAIN ft.execs :
    /\ ft.execs[i].phase = "fetching"
    /\ FetchCommit(fetchCatch(ft, i, ft.execs[i].signalled), "rejected")

\* The timeout timer of the request of call i fires.
FetchTimeout ==
  \E i \in DOMAIN ft.execs :
    /\ ft.execs[i].phase = "fetching"
    /\ ~ft.execs[i].signalled
    /\ FetchCommit(controllerAbort(ft, <<i, ft.execs[i].attempt>>), "timeout")

\* The retry timer of call i fires.
RetryTimer ==
  \E i \in DOMAIN ft.execs :
    /\ ft.execs[i].phase = "waiting"
    /\ ft.execs[i].timer
    /\ FetchCommit(executeWithRetry(ft, i, ft.execs[i].attempt + 1), "retry")

\* The cleanup of the last effect calls abort().
FetchUnmount ==
  /\ ft.pc = "live"
  /\ FetchCommit([fetchAbort(ft) EXCEPT !.pc = "unmounted"], "unmount")

FetchNext ==
  \/ UserExecute
  \/ UserAbort
  \/ FetchUserReset
  \/ FetchResolved
  \/ FetchRejected
  \/ FetchTimeout
  \/ RetryTimer
  \/ FetchUnmount

FetchSpec == FetchInit /\ [][FetchNext]_vars

\* The host answers every request or fails it, and fires every timer it
\* holds; the user owes no call.
FetchLive ==
  /\ FetchSpec
  /\ WF_vars(FetchResolved \/ FetchRejected)
  /\ WF_vars(RetryTimer)

\* ------------------------------------------------- properties of usePolling
TimerOps == {"tick", "retry", "pace"}

\* C1: a start() or poll() call made while an invocation of fn is in flight
\* begins no second invocation until the first settles or is aborted.
C1_NoSecondInvocationOnCall ==
  (last.op \in {"start", "poll"} /\ last.started > 0)
    => BagCardinality(FilterBag({r \in BagToSet(inflight) : ~r.aborted}, inflight)) <= 1

\* C2: an interval tick or a retry timer that fires while an invocation is
\* in flight starts no second one: at most one invocation is in flight.
C2_TimersKeepSingleFlight ==
  (last.op \in TimerOps /\ last.started > 0) => BagCardinality(inflight) <= 1

\* C3: with maxRetries = N and an fn that always fails, an interval session
\* stops after exactly N+1 invocations and error is set only after the last.
C3_StopsAfterRetryBudget ==
  (type = "interval" /\ quiet)
    => /\ fnCalls <= maxRetries + 1
       /\ (error # Null => (fnCalls = maxRetries + 1 /\ ~isRunning))

\* C4: an invocation that was in flight when stop() ran and later resolves
\* updates neither data nor any other state and calls no onSuccess.
C4_StoppedResultDiscarded ==
  (last.op = "resolve" /\ last.rec.aborted /\ isActiveRef)
    => /\ data = last.pre.data
       /\ error = last.pre.error
       /\ retryCount = last.pre.retryCount
       /\ last.cb.kind = "none"

\* C5: after stop() on a running interval session no tick and no retry timer
\* starts an invocation until start() or poll() is called; isRunning and
\* isLoading are false.
C5_StopCancelsSchedule ==
  (type = "interval" /\ sinceStop)
    => /\ last.started = 0
       /\ ~isRunning
       /\ (last.op = "stop" => ~isLoading)

\* C6: in long mode the loop runs only while the session is Running: after
\* stop() fn is not invoked until start() or poll() is called.
C6_LongLoopEndsOnStop ==
  (type = "long" /\ sinceStop) => (last.started = 0 /\ ~isRunning)

\* C7: reset() clears error and retryCount and changes neither data nor the
\* running state (nor the timers and invocations of the session).
C7_ResetFrame ==
  [][last'.op = "reset"
       => /\ error' = Null
          /\ retryCount' = 0
          /\ data' = data
          /\ isRunning' = isRunning
          /\ isLoading' = isLoading
          /\ timers' = timers
          /\ inflight' = inflight
          /\ fnCalls' = fnCalls
          /\ intervalRef' = intervalRef
          /\ timeoutRef' = timeoutRef]_vars

C7_Witness ==
  last.op = "reset" /\ last.pre.error # Null /\ data # Null /\ error = Null

\* C8: retryCount stays within 0..maxRetries, and a success in a mounted
\* session resets it to 0.
C8_RetryCountBounded ==
  /\ retryCount \in 0..maxRetries
  /\ (last.op = "resolve" /\ isActiveRef) => retryCount = 0

C8_Witness ==
  /\ last.op = "resolve"
  /\ isActiveRef
  /\ maxRetries > 0
  /\ last.pre.retryCount = maxRetries
  /\ retryCount = 0

C10_PollInvokesOnce ==
  /\ (last.op = "poll" /\ isActiveRef) => last.started = 1
  /\ (last.op = "retry" /\ last.started > 0) => ~last.rec.manual

\* The pacing timer the long-poll loop is waiting on.
PacePending == \E t \in BagToSet(timers) : t.kind = "pace" /\ t.held /\ t.cRunning

RetryPending(T) == \E t \in BagToSet(T) : t.kind = "retry"

\* C12: in an interval session with a budget above two whose fn has failed
\* twice (the first invocation and its first retry) the success of the third
\* invocation leaves data at the value, error absent and retryCount 0, and fn
\* has been invoked exactly three times: nothing is in flight and no retry
\* is pending.
C12_FailTwiceThenSucceed ==
  [][(quiet /\ type = "interval" /\ maxRetries > 2 /\ fnCalls = 3
      /\ last'.op = "resolve")
       => /\ data' = last'.cb.arg
          /\ last'.cb.kind = "onSuccess"
          /\ error' = Null
          /\ retryCount' = 0
          /\ fnCalls' = 3
          /\ inflight' = EmptyBag
          /\ ~RetryPending(timers')
          /\ isRunning']_vars

C12_Witness ==
  /\ type = "interval"
  /\ maxRetries = DefaultMaxRetries
  /\ last.op = "resolve"
  /\ last.rec.retry
  /\ ~last.rec.manual
  /\ isActiveRef
  /\ fnCalls = 3
  /\ inflight = EmptyBag
  /\ last.pre.data = Null
  /\ last.pre.retryCount > 0
  /\ data = last.cb.arg
  /\ error = Null
  /\ retryCount = 0

\* C13: start() on a session that is already running changes nothing: fn is
\* not invoked, no timer and no loop is created, and data, error, retryCount
\* and the other cells stay as they were.
C13_StartWhileRunningNoOp ==
  [][(last'.op = "start" /\ isRunning)
       => /\ fnCalls' = fnCalls
          /\ timers' = timers
          /\ inflight' = inflight
          /\ data' = data
          /\ error' = error
          /\ retryCount' = retryCount
          /\ isRunning' = isRunning
          /\ isLoading' = isLoading
          /\ intervalRef' = intervalRef
          /\ timeoutRef' = timeoutRef
          /\ abortControllerRef' = abortControllerRef
          /\ last'.cb.kind = "none"]_vars

C13_Witness ==
  /\ last.op = "start"
  /\ last.pre.isRunning
  /\ isRunning
  /\ last.started = 0
  /\ inflight # EmptyBag
  /\ timers # EmptyBag

\* C14: once the component is unmounted no step invokes fn, calls onSuccess
\* or onError, or writes a state cell, whether the step is a timer that was
\* still pending, the settlement of an invocation, or a call of poll().
C14_NothingAfterUnmount ==
  [][~isActiveRef
       => /\ fnCalls' = fnCalls
          /\ last'.cb.kind = "none"
          /\ data' = data
          /\ error' = error
          /\ retryCount' = retryCount
          /\ isLoading' = isLoading
          /\ isRunning' = isRunning
          /\ ~isActiveRef']_vars

C14_Witness ==
  /\ ~isActiveRef
  /\ last.op = "resolve"
  /\ last.rec.aborted
  /\ last.cb.kind = "none"
  /\ data = Null
  /\ isLoading
  /\ RetryPending(timers)

\* --------------------------------------------------- properties of useEvent
\* The elements that hold a listener.
Listening == {l.element : l \in ev.listeners}

\* The arguments are the single binding b, given as one object or as an array
\* of one, with no global default.
OnlyBinding(b) ==
  /\ ev.eventOptionsRef.form \in {"object", "array"}
  /\ ev.eventOptionsRef.configs = <<b>>
  /\ ev.globalConfigRef = NoGlobal

\* The elements of the document with the id i.
WithId(i) == {e \in ev.document : elementId(e) = i}

\* C15: with ids = ["x"] and targetElements = ["button"], in a document that
\* has an element with the id x, only an element that has the id x and is a
\* button holds a listener after the setup: a div with the id x holds none,
\* and neither does a button without the id.
C15_IdAndTagMustBothMatch ==
  (ev.pc = "idle" /\ ~ev.domChanged /\ OnlyBinding(OnButtonX)
   /\ Cardinality(WithId("x")) = 1)
    => \A e \in Listening : elementId(e) = "x" /\ tagName(e) = "button"

\* The elements a config selects by the rule of the claim, from the selectors
\* it is given (its own, or else the global default).
Selected(config) ==
  LET ids == Range(Coalesce(config.ids, ev.globalConfigRef.ids).items)
      tags == Range(Coalesce(config.targetElements,
                             ev.globalConfigRef.targetElements).items)
      byId == {e \in ev.document : elementId(e) \in ids}
      byTag == {e \in ev.document : tagName(e) \in tags}
  IN IF ids = {} /\ tags = {} THEN {}
     ELSE IF ids = {} THEN byTag
     ELSE IF tags = {} THEN byId
     ELSE byId \cap byTag

\* C16: after the setup the elements that hold a listener are, over the
\* configs, the elements with the given ids when only ids are given, the
\* elements with the given tags when only tags are given, the elements that
\* match both when both are given, and none when neither is given.
C16_SelectionRule ==
  (ev.pc = "idle" /\ ~ev.domChanged)
    => Listening = UNION {Selected(normalize(ev.eventOptionsRef)[i]) :
                            i \in DOMAIN normalize(ev.eventOptionsRef)}

Tracked ==
  UNION {GroupListeners(ev.elementCallbacksRef[i]) : i \in DOMAIN ev.elementCallbacksRef}

\* C18: when the effect of a new configuration is due, the cleanup has removed
\* every listener of the previous one, with one removal per attachment, and
\* once the effect has run the listeners attached are those of the new
\* configuration only.
C18_RemovedBeforeAttached ==
  /\ ev.pc = "setup"
       => (ev.listeners = {} /\ ev.elementCallbacksRef = <<>> /\ ev.removes = ev.adds)
  /\ ev.pc = "idle" => ev.listeners = Tracked

C18_Witness ==
  /\ ev.pc = "setup"
  /\ ev.op = "cleanup"
  /\ Cardinality(ev.prev) > 1
  /\ ev.listeners = {}
  /\ ev.removes > 1

\* C19: an effect that is given the arguments of the one before, equal by
\* value, against the document as it was, starts with no listener attached
\* (the old ones were removed first), attaches exactly the listeners there
\* were before, and makes as many attachments as the cleanup made removals.
C19_SameBindingsSameListeners ==
  [][(ev.pc = "setup" /\ ev'.pc = "idle" /\ ev'.sameArgs /\ ~ev'.staleDoc)
       => /\ ev.listeners = {}
          /\ ev'.listeners = ev.prev
          /\ ev'.adds = ev.removes
          /\ ev'.listeners = UNION {GroupListeners(ev'.elementCallbacksRef[i]) :
                                      i \in DOMAIN ev'.elementCallbacksRef}]_vars

C19_Witness ==
  /\ ev.pc = "idle"
  /\ ev.op = "setup"
  /\ ev.sameArgs
  /\ ~ev.staleDoc
  /\ ~ev.domChanged
  /\ ev.eventOptionsRef.form = "array"
  /\ Len(ev.elementCallbacksRef) > 1
  /\ Cardinality(ev.listeners) > 1
  /\ ev.adds = ev.removes

\* The buttons of the document.
Buttons == {e \in ev.document : tagName(e) = "button"}

\* C20: with the one binding {event: "click", targetElements: "button"} the
\* listeners after a setup are one per button of the document as it is then
\* and nothing else: an element that is no button, or a button that has left
\* the document, holds none.
C20_OneListenerPerButton ==
  (ev.pc = "idle" /\ ev.op = "setup" /\ ~ev.domChanged
   /\ ev.eventOptionsRef.form = "object" /\ OnlyBinding(OnButtons))
    => /\ ev.listeners = {[element |-> e, event |-> "click",
                           callback |-> ev.globalCallbackRef, capture |-> FALSE,
                           options |-> NoOptions] : e \in Buttons}
       /\ Cardinality(ev.listeners) = Cardinality(Buttons)
       /\ ev.adds = Cardinality(Buttons)

C20_Witness ==
  /\ ev.pc = "idle"
  /\ ev.op = "setup"
  /\ ~ev.domChanged
  /\ ev.eventOptionsRef.form = "object"
  /\ OnlyBinding(OnButtons)
  /\ ev.sameArgs
  /\ ev.staleDoc
  /\ ev.removes = 3
  /\ ev.document = {"b1", "b2", "d1", "d2"}
  /\ Cardinality(ev.listeners) = 2


\* ------------------------------------------- properties of useEvent, continued
\* The options a config is to be attached with: for each flag, the value of
\* the config when it defines the flag, else the value of the global default.
MergedOptions(global, own) ==
  {p \in {"capture", "passive", "once"} \X BOOLEAN :
     IF \E v \in BOOLEAN : <<p[1], v>> \in own THEN p \in own ELSE p \in global}

\* The elements the resolution of the refs of s against its document gives.
ResolvedElements(s) ==
  UNION {Range(finalElements(c, s.globalConfigRef, s.document).elements) :
           c \in Range(normalize(s.eventOptionsRef))}

Refs(s) == <<s.globalCallbackRef, s.eventOptionsRef, s.globalConfigRef>>

\* C21: a render with the three arguments unchanged by identity adds and
\* removes no listener; a render with an argument of a new identity first
\* removes every listener and empties the table, and the effect that follows
\* takes the new arguments and leaves listeners on exactly the elements they
\* resolve to.
C21_IdentityChangeResetsListeners ==
  [][/\ (ev.pc = "idle" /\ ev'.pc = "idle" /\ ev'.op = "render")
          => /\ ev'.listeners = ev.listeners
             /\ ev'.elementCallbacksRef = ev.elementCallbacksRef
             /\ ev'.adds = ev.adds
             /\ ev'.removes = ev.removes
     /\ (ev.pc = "idle" /\ ev'.pc = "setup")
          => (ev'.listeners = {} /\ ev'.elementCallbacksRef = <<>>)
     /\ (ev.pc = "setup" /\ ev'.pc = "idle")
          => /\ ev'.sameArgs <=> (Refs(ev') = Refs(ev))
             /\ {l.element : l \in ev'.listeners} = ResolvedElements(ev')]_vars

C21_Witness ==
  /\ ev.pc = "idle"
  /\ ev.op = "setup"
  /\ ~ev.sameArgs
  /\ ev.removes > 1
  /\ ev.adds > 1
  /\ ev.listeners # {}

\* C22: after a setup every resolved element of a config holds a listener
\* with the callback of the config, or the default callback when the config
\* has none, and with the options merged from the global default and the
\* config, the config winning; the cleanup removes every one of them.
C22_CallbackAndOptionsPerBinding ==
  /\ (ev.pc = "idle" /\ ~ev.domChanged)
       => ev.listeners =
            UNION {LET m == MergedOptions(ev.globalConfigRef.options, c.options)
                   IN {[element |-> e, event |-> c.event,
                        callback |-> IF c.callback = "undefined"
                                     THEN ev.globalCallbackRef ELSE c.callback,
                        capture |-> <<"capture", TRUE>> \in m, options |-> m] :
                         e \in Range(finalElements(c, ev.globalConfigRef,
                                                   ev.document).elements)} :
                     c \in Range(normalize(ev.eventOptionsRef))}
  /\ (ev.pc \in {"setup", "unmounted"} /\ ~ev.raised) => ev.listeners = {}

C22_Witness ==
  /\ ev.pc = "setup"
  /\ ev.op = "cleanup"
  /\ ev.listeners = {}
  /\ \E l \in ev.prev :
       l.callback = "cbC" /\ ~l.capture /\ <<"passive", TRUE>> \in l.options
  /\ \E l \in ev.prev : l.callback = ev.globalCallbackRef /\ l.capture

\* The selector a config is resolved with: its own when it gives one, else
\* the global default.
OwnOrDefault(own, default) == IF own = Undef THEN default ELSE own

\* The elements the code selects from the ids and tags given.
SelectedFrom(ids, tags) ==
  LET byId == {e \in ev.document : elementId(e) \in ids}
      byTag == {e \in ev.document : tagName(e) \in tags}
  IN IF byId = {} THEN byTag
     ELSE IF byTag = {} THEN byId
     ELSE byId \cap byTag

\* C23: the elements that hold a listener after the setup are those selected
\* from, for each config and each of ids and targetElements, the selector of
\* the config when it gives one and the global default when it gives none
\* (a bare event name gives none).
C23_DefaultsOnlyWhenOmitted ==
  ev.pc = "idle"
    => Listening =
         UNION {SelectedFrom(
                  Range(OwnOrDefault(c.ids, ev.globalConfigRef.ids).items),
                  Range(OwnOrDefault(c.targetElements,
                                     ev.globalConfigRef.targetElements).items)) :
                  c \in Range(normalize(ev.eventOptionsRef))}

C23_Witness ==
  /\ ev.pc = "idle"
  /\ ev.eventOptionsRef.form = "array"
  /\ ev.eventOptionsRef.configs = <<OnButtons, OnX>>
  /\ ev.globalConfigRef.ids = StringSel("x")
  /\ ev.globalConfigRef.targetElements = StringSel("div")
  /\ ev.document = {"b1", "d1", "dx"}
  /\ Listening = {"dx"}

\* C24: when addEventListener throws, the exception leaves addEventListeners
\* and the effect: the throwing call is made once, the element holds no
\* listener, and the table is not assigned.
C24_RegistrationFailurePropagates ==
  ev.raised
    => /\ ev.threw
       /\ ev.pc = "failed"
       /\ ev.fault \notin Listening
       /\ ev.elementCallbacksRef = <<>>
       /\ Cardinality(ev.listeners) < ev.adds

C24_Witness ==
  /\ ev.pc = "failed"
  /\ ev.raised
  /\ ev.fault = "b2"
  /\ Listening = {"b1"}
  /\ ev.adds = 2

\* C25: a listener the table of the other component records is attached as
\* long as that component is mounted, whatever this component does.
C25_PeerListenersStay ==
  \A i \in DOMAIN ev.peer :
    \A l \in GroupListeners(ev.peer[i]) : Key(l) \in {Key(k) : k \in ev.listeners}

\* ------------------------------------------ properties of usePolling, continued
\* C27: an invocation that resolves in a mounted session that stop() has not
\* aborted stores the value in data, clears error, sets retryCount to 0,
\* calls onSuccess (once, with the value) and sets isLoading to false.
C27_SuccessUpdatesState ==
  (last.op = "resolve" /\ isActiveRef /\ ~last.rec.aborted)
    => /\ last.cb = [kind |-> "onSuccess", arg |-> data, count |-> 0]
       /\ data \in Values
       /\ error = Null
       /\ retryCount = 0
       /\ ~isLoading

C27_Witness ==
  /\ last.op = "resolve"
  /\ isActiveRef
  /\ ~last.rec.aborted
  /\ last.pre.error # Null
  /\ last.pre.data = Null
  /\ data # Null
  /\ error = Null

\* C28: in an interval session whose history is failures of fn and retry
\* timers only, the k-th failure in a row (k = fnCalls), for k <= maxRetries,
\* sets retryCount to k, calls onError with the count k, leaves exactly one
\* retry timer pending and does not set error.
C28_KthFailureCountsK ==
  (quiet /\ type = "interval" /\ last.op = "reject" /\ isActiveRef
   /\ fnCalls <= maxRetries)
    => /\ retryCount = fnCalls
       /\ last.cb.kind = "onError"
       /\ last.cb.count = fnCalls
       /\ error = Null
       /\ BagCardinality(FilterBag({t \in BagToSet(timers) : t.kind = "retry"},
                                   timers)) = 1

\* C29: a failure of fn that finds retryCount equal to maxRetries sets error
\* to the failure, sets retryCount to 0, calls onError and sets isLoading to
\* false; in interval mode it also sets isRunning to false and cancels the
\* interval timer.
C29_FailureAtBudgetSurfaces ==
  (quiet /\ last.op = "reject" /\ isActiveRef /\ last.pre.retryCount = maxRetries)
    => /\ error = last.cb.arg
       /\ error \in Errors
       /\ retryCount = 0
       /\ last.cb.kind = "onError"
       /\ ~isLoading
       /\ type = "interval"
            => (~isRunning /\ \A t \in BagToSet(timers) : t.kind # "interval")

\* C30: an invocation that was in flight when stop() ran and later rejects
\* calls no onError, leaves error and retryCount as they were and schedules
\* no retry.
C30_CancelledFailureIgnored ==
  (last.op = "reject" /\ last.rec.aborted /\ isActiveRef)
    => /\ last.cb.kind = "none"
       /\ error = last.pre.error
       /\ retryCount = last.pre.retryCount
       /\ ~RetryPending(timers)

\* ---------------------------------------------------- properties of useWebSocket
NoSocketPending == \A i \in DOMAIN ws.sockets : ws.sockets[i].readyState = CLOSED

\* C26: with shouldReconnect, the reconnect timers call connect at most
\* reconnectAttempts times without a socket opening in between, and once
\* that many calls were made and every socket is closed, no reconnect timer
\* is pending and isReconnecting is false.
C26_ReconnectionBounded ==
  (ws.pc = "live" /\ ws.shouldReconnect)
    => /\ ws.attempts <= ws.reconnectAttempts
       /\ (ws.attempts >= ws.reconnectAttempts /\ NoSocketPending /\ ws.op = "close")
            => (ws.timers = EmptyBag /\ ~ws.isReconnecting)

\* ----------------------------------------- properties of usePolling, concluded
\* C34: with autoStart = false the first render invokes fn not at all and
\* creates no timer, and this stays so through every step that is not a call
\* of start() or poll().
C34_IdleUntilStartOrPoll ==
  /\ ~autoStart => (fnCalls = 0 /\ timers = EmptyBag /\ inflight = EmptyBag)
  /\ [][(~autoStart /\ fnCalls = 0 /\ timers = EmptyBag
         /\ last'.op \notin {"start", "poll"})
          => (fnCalls' = 0 /\ timers' = EmptyBag /\ inflight' = EmptyBag)]_vars

C34_Witness ==
  /\ ~autoStart
  /\ isActiveRef
  /\ last.op = "reset"
  /\ fnCalls = 0
  /\ timers = EmptyBag
  /\ ~isRunning

\* C35: at most one interval timer and at most one timeout (retry or pacing)
\* are pending, and each pending timer is the one its ref holds, so that
\* stop() and the unmount cleanup cancel every pending timer.
C35_TimersAllHeld ==
  /\ BagCardinality(FilterBag({t \in BagToSet(timers) : ~IsTimeout(t)}, timers)) <= 1
  /\ BagCardinality(FilterBag({t \in BagToSet(timers) : IsTimeout(t)}, timers)) <= 1
  /\ \A t \in BagToSet(timers) : t.held
  /\ last.op \in {"stop", "unmount"} => timers = EmptyBag

\* ------------------------------------- properties of useWebSocket, continued
Live == {i \in DOMAIN ws.sockets : ws.sockets[i].readyState \in {CONNECTING, OPEN}}

\* C36: in a hook without autoConnect in which no reconnect timer has fired,
\* a call of connect() or reconnect() with a valid url leaves exactly one
\* socket connecting or open, and the close event of a socket that such a
\* call replaced sets no reconnect timer, creates no socket and leaves the
\* socket wsRef refers to as it is.
C36_ReplacedSocketIsInert ==
  [][(ws.pc = "live" /\ ~ws.autoConnect /\ ws.attempts = 0 /\ ws'.attempts = 0)
       => /\ (ws'.op \in {"connect", "reconnect"} /\ ws.validUrl)
               => \E i \in DOMAIN ws'.sockets :
                    /\ ws'.wsRef = i
                    /\ {j \in DOMAIN ws'.sockets :
                          ws'.sockets[j].readyState \in {CONNECTING, OPEN}} = {i}
          /\ \A i \in DOMAIN ws.sockets :
               (/\ i # ws.wsRef
                /\ ws.sockets[i].readyState # CLOSED
                /\ ws'.op = "close"
                /\ ws'.sockets[i].readyState = CLOSED)
                 => /\ ws'.timers = ws.timers
                    /\ Len(ws'.sockets) = Len(ws.sockets)
                    /\ ws'.sockets[ws.wsRef] = ws.sockets[ws.wsRef]]_vars

\* --------------------------------------------- properties of useEvent, concluded
RECURSIVE Reverse(_)
Reverse(q) == IF q = <<>> THEN <<>> ELSE Append(Reverse(Tail(q)), Head(q))

\* C31: the unmount cleanup calls removeEventListener for the listeners of
\* the table in the reverse of the order in which the table records them.
C31_RemovedInReverseOrder ==
  [][(ev.pc = "idle" /\ ev'.pc = "unmounted")
       => ev'.removed = Reverse(removalCalls(ev.elementCallbacksRef))]_vars

\* The listeners the table of the component records, by what the host tells
\* them apart by.
TrackedKeys ==
  UNION {{Key(l) : l \in GroupListeners(ev.elementCallbacksRef[i])} :
           i \in DOMAIN ev.elementCallbacksRef}

\* C32: after an attachment pass in which addEventListener threw, the table
\* records every listener the pass attached before, and once the component
\* is disposed of no listener is left.
C32_FailedPassStaysTracked ==
  ev.raised
    => /\ \A l \in ev.listeners : Key(l) \in TrackedKeys
       /\ ev.pc = "unmounted" => ev.listeners = {}

\* C33: while the component is idle the table records every listener it has
\* attached; a change of the document alone adds and removes no listener and
\* leaves the table as it is; and the next cleanup removes every listener,
\* also one on an element that has left the document.
C33_TableCoversAcrossDomChanges ==
  [][/\ ev.pc = "idle" => {Key(l) : l \in ev.listeners} = TrackedKeys
     /\ (ev.pc = "idle" /\ ev'.pc = "idle" /\ ev'.document # ev.document)
          => /\ ev'.listeners = ev.listeners
             /\ ev'.elementCallbacksRef = ev.elementCallbacksRef
             /\ ev'.adds = ev.adds
             /\ ev'.removes = ev.removes
     /\ (ev.pc = "idle" /\ ev.domChanged /\ ev'.pc \in {"setup", "unmounted"})
          => (ev'.listeners = {} /\ ev'.elementCallbacksRef = <<>>)]_vars

C33_Witness ==
  /\ ev.pc = "setup"
  /\ ev.op = "cleanup"
  /\ ev.domChanged
  /\ \E l \in ev.prev : l.element \notin ev.document
  /\ \E e \in ev.document : e \notin {l.element : l \in ev.prev}
  /\ ev.listeners = {}


\* ----------------------------------------------- properties of useCountdown
\* C37: in every state of useCountdown, from the first render on, timeLeft
\* is not negative, and isCompleted implies that isActive is false and that
\* timeLeft is 0.
C37_CompletedIsInactiveAtZero ==
  cd.pc \in {"rendered", "live"} =>
    /\ cd.timeLeft >= 0
    /\ ReturnedTimeLeft(cd) >= 0
    /\ cd.isCompleted => (~cd.isActive /\ cd.timeLeft = 0)

\* The parts of C37 that the code keeps: timeLeft is never negative and is 0
\* in a completed state, and start() in a completed state changes nothing.
CountdownTimeLeftInRange ==
  cd.pc \in {"rendered", "live"} =>
    /\ cd.timeLeft >= 0
    /\ cd.isCompleted => cd.timeLeft = 0

CountdownStartWhenCompleted ==
  [][(cd.pc = "live" /\ cd.isCompleted /\ cd'.op = "start")
       => cd' = [cd EXCEPT !.op = "start"]]_vars


\* --------------------------------------------------- properties of useFetch
\* abort() was just called while a call of execute() had not settled.
AbortDuringExecute == ft.op = "abort" /\ ft.during # {}

\* C38: after abort() is called during an execute(), while its request is
\* in flight or while it waits for the retry delay, the call issues no
\* further request, and loading eventually becomes false.
C38_AbortStopsAndEndsLoading ==
  /\ [][\A i \in DOMAIN ft.execs :
          i \in ft.hit => ft'.execs[i].attempt = ft.execs[i].attempt]_vars
  /\ [](AbortDuringExecute => <>(~ft.loading \/ ft.pc = "unmounted"))

\* The part of C38 that the code keeps: a call that abort() reached issues
\* no further request.
FetchNoRequestAfterAbort ==
  [][\A i \in DOMAIN ft.execs :
       i \in ft.hit => ft'.execs[i].attempt = ft.execs[i].attempt]_vars

\* The case of C38 that the code keeps: abort() while every outstanding
\* request is in flight.
FetchAbortInFlightEndsLoading ==
  [](((AbortDuringExecute /\ ft.during = {"fetching"} /\ Len(ft.execs) = 1)
       => <>(~ft.loading \/ ft.pc = "unmounted")))

====
